---- MODULE Spec2Model ----
(***************************************************************************)
(* A model of s3downloader (src/main.go): the recursive enumeration of an  *)
(* S3 prefix (collectRecursive), the bounded-concurrency transfer of the   *)
(* collected keys (downloadFiles) and the program's main.                  *)
(*                                                                         *)
(* Strings are sequences of one-character strings, so that HasSuffix, the  *)
(* delimiter roll-up of a listing and filepath.Join work on characters as  *)
(* the code's library calls do.                                            *)
(***************************************************************************)
EXTENDS Integers, Sequences, FiniteSets, TLC

VARIABLES
    ns,        \* the bucket: the set of object keys the store holds
    start,     \* the prefix argument of the outermost collectRecursive call
    stack,     \* the call stack of collectRecursive, innermost frame last
    keys,      \* *keys, the accumulator
    failedAt,  \* the prefixes whose listing logged "Error listing" (the log)
    mainPc,    \* main's position; "off" when a function is run on its own
    phases,    \* the pipeline stages main has called, in call order
    dkeys,     \* downloadFiles' keys argument
    dlPc,      \* downloadFiles' own position: "off", "loop" or "returned"
    launched,  \* how many iterations of the loop of line 104 have run
    wg,        \* the WaitGroup's counter
    sem,       \* len(sem): the number of slots taken in the channel
    tpc,       \* the position of the goroutine of each entry of dkeys
    files,     \* the local files, by path: absent, or present with their content
    dirs,      \* the local directories that exist
    outcome,   \* what each goroutine logged (lines 114, 120, 130, 132)
    hist,      \* per entry of dkeys, how often a goroutine was started for it and
               \* how often that goroutine sent to sem, received from sem and
               \* called MkdirAll, Create and Download, the units of the object
               \* its Download has written in the running attempt of each
               \* part, and how often it started a part again
    tree,      \* what filepath.Walk meets under createZip's sourceDir, in its order
    zpc,       \* createZip's position: "off", "create", "walk" or "returned"
    zidx,      \* how many calls of the walk function have returned
    entries,   \* the names of the archive's entries, in the order of their creation
    zerr,      \* the error createZip returned
    sfiles,    \* the files of the tree the sweep walks, by name
    swalk,     \* the names the running sweep has still to visit, the current one first
    spc,       \* the sweep's position, "off" when it is not run
    srun,      \* how many sweeps have been started
    slog       \* what the sweeps logged: run, name and outcome, in order

collectVars == <<ns, start, stack, keys, failedAt>>
mainVars == <<mainPc, phases>>
dlVars == <<dkeys, dlPc, launched, wg, sem, tpc, files, dirs, outcome, hist>>

zipVars == <<tree, zpc, zidx, entries, zerr>>
sweepVars == <<sfiles, swalk, spc, srun, slog>>
toolVars == <<zipVars, sweepVars>>

vars == <<collectVars, mainVars, dlVars, toolVars>>

----------------------------------------------------------------------------
(* Bounds of the model *)

\* the largest number of objects in the modelled bucket
MaxNs == 3

\* the largest number of entries of downloadFiles' key list
MaxKeys == 3

\* The capacity of the channel sem. The source sets 20 (line 102); the model
\* takes a smaller pool so that key lists longer than the pool are explored.
SemCap == 2

----------------------------------------------------------------------------
(* Characters and strings *)

\* the characters that occur in the modelled keys, in byte (ASCII) order
Alphabet == << ".", "/", "0", "1", "2", "5", "_", "a", "b", "c", "d", "e",
               "g", "i", "j", "m", "n", "o", "p", "r", "s", "t", "u", "v",
               "w", "x", "y", "z" >>

Code(c) == CHOOSE i \in 1..Len(Alphabet) : Alphabet[i] = c

Slash == "/"

\* strings.HasPrefix(s, p)
HasPrefix(s, p) == Len(p) <= Len(s) /\ SubSeq(s, 1, Len(p)) = p

\* strings.HasSuffix(s, x)
HasSuffix(s, x) ==
    Len(x) <= Len(s) /\ SubSeq(s, Len(s) - Len(x) + 1, Len(s)) = x

\* byte-wise s < t, the order in which the store lists keys
RECURSIVE LexLess(_, _)
LexLess(s, t) ==
    IF t = <<>> THEN FALSE
    ELSE IF s = <<>> THEN TRUE
    ELSE IF Head(s) = Head(t) THEN LexLess(Tail(s), Tail(t))
    ELSE Code(Head(s)) < Code(Head(t))

RECURSIVE SortedSeq(_)
SortedSeq(S) ==
    IF S = {} THEN <<>>
    ELSE LET m == CHOOSE x \in S : \A y \in S \ {x} : LexLess(x, y)
         IN  <<m>> \o SortedSeq(S \ {m})

\* the index of the first "/" of s at or after position i, 0 when there is none
RECURSIVE IndexFrom(_, _)
IndexFrom(s, i) ==
    IF i > Len(s) THEN 0
    ELSE IF s[i] = Slash THEN i
    ELSE IndexFrom(s, i + 1)

\* ".json.gz", the suffix tested at line 90
GzSuffix == << ".", "j", "s", "o", "n", ".", "g", "z" >>

\* "miner_data/2025/10/01/00", the prefix main passes at line 50
MainPrefix == << "m", "i", "n", "e", "r", "_", "d", "a", "t", "a", "/",
                 "2", "0", "2", "5", "/", "1", "0", "/", "0", "1", "/",
                 "0", "0" >>

----------------------------------------------------------------------------
(* The bucket *)

KeyAX   == << "a", "/", "x" >> \o GzSuffix                 \* a/x.json.gz
KeyABY  == << "a", "/", "b", "/", "y" >> \o GzSuffix       \* a/b/y.json.gz
KeyAZ   == << "a", "/", "z", ".", "t", "x", "t" >>         \* a/z.txt
KeyAbW  == << "a", "b", "/", "w" >> \o GzSuffix            \* ab/w.json.gz
KeyASX  == << "a", "/", "/", "x" >> \o GzSuffix            \* a//x.json.gz
KeyCU   == << "c", "/", "u" >> \o GzSuffix                 \* c/u.json.gz
KeyAJ   == << "a", "/", "j", "s", "o", "n", ".", "g", "z" >>  \* a/json.gz
KeyM    == MainPrefix \o << "/", "m" >> \o GzSuffix        \* <MainPrefix>/m.json.gz
KeyMSN  == MainPrefix \o << "/", "s", "/", "n" >> \o GzSuffix  \* <MainPrefix>/s/n.json.gz

\* the keys a modelled bucket may hold
Universe == { KeyAX, KeyABY, KeyAZ, KeyAbW, KeyASX, KeyCU, KeyAJ, KeyM, KeyMSN }

Buckets == { b \in SUBSET Universe : Cardinality(b) <= MaxNs }

\* the prefixes collectRecursive is started on when run on its own
StartPrefixes == { <<>>, << "a" >>, << "a", "/" >>, << "a", "/", "b", "/" >>,
                   MainPrefix }

Range(s) == { s[i] : i \in 1..Len(s) }

----------------------------------------------------------------------------
(* ListObjectsV2 with Delimiter "/" (the store's side of lines 71-79) *)

\* One key of the bucket as the listing of prefix P reports it: the key itself
\* (Contents) when nothing after P holds a "/", else the key cut after the
\* first "/" that follows P (CommonPrefixes).
RollUp(P, k) ==
    LET i == IndexFrom(k, Len(P) + 1)
    IN  IF i = 0 THEN [cp |-> FALSE, name |-> k]
        ELSE [cp |-> TRUE, name |-> SubSeq(k, 1, i)]

Entries(b, P) == { RollUp(P, k) : k \in { x \in b : HasPrefix(x, P) } }

\* the whole listing of P in the store's (byte) order, before it is cut in pages
ListingOf(b, P) ==
    LET E     == Entries(b, P)
        names == SortedSeq({ e.name : e \in E })
    IN  [ i \in 1..Len(names) |-> CHOOSE e \in E : e.name = names[i] ]

\* the names of the entries of page pg that are (cp = TRUE) common prefixes or
\* (cp = FALSE) contents, in the page's order
RECURSIVE Select(_, _)
Select(pg, cp) ==
    IF pg = <<>> THEN <<>>
    ELSE IF Head(pg).cp = cp THEN <<Head(pg).name>> \o Select(Tail(pg), cp)
    ELSE Select(Tail(pg), cp)

\* the sizes the next page of a listing may have: a page holds at least one
\* entry, except the only page of an empty listing
PageSizes(rest) == IF rest = <<>> THEN {0} ELSE 1..Len(rest)

----------------------------------------------------------------------------
(* collectRecursive, lines 70-97 *)

\* a call's frame on entry: the paginator of lines 71-77, no page read yet
NewFrame(P) ==
    [ prefix |-> P,
      first  |-> TRUE,               \* paginator.firstPage
      rest   |-> ListingOf(ns, P),   \* what the store has yet to return
      cps    |-> <<>>,               \* page.CommonPrefixes not yet recursed into
      objs   |-> <<>> ]              \* page.Contents not yet visited

Top == stack[Len(stack)]

Pop == SubSeq(stack, 1, Len(stack) - 1)

SetTop(f) == [stack EXCEPT ![Len(stack)] = f]

\* the frame is at the loop condition of line 78
AtLoopHead == stack # <<>> /\ Top.cps = <<>> /\ Top.objs = <<>>

\* paginator.HasMorePages(): the first page, or a continuation token
HasMorePages(f) == f.first \/ f.rest # <<>>

\* lines 78-79, err = nil: the next page of the listing
NextPageOk ==
    /\ AtLoopHead
    /\ HasMorePages(Top)
    /\ \E n \in PageSizes(Top.rest) :
         LET pg == SubSeq(Top.rest, 1, n)
         IN  stack' = SetTop([Top EXCEPT
                 !.first = FALSE,
                 !.rest  = SubSeq(Top.rest, n + 1, Len(Top.rest)),
                 !.cps   = Select(pg, TRUE),
                 !.objs  = Select(pg, FALSE)])
    /\ UNCHANGED <<toolVars, ns, start, keys, failedAt, mainVars, dlVars>>

\* NextPageErr as it would be if the error ended the whole walk
NextPageErrAbortsWalk ==
    /\ AtLoopHead
    /\ HasMorePages(Top)
    /\ failedAt' = failedAt \cup {Top.prefix}
    /\ stack' = <<>>
    /\ UNCHANGED <<toolVars, ns, start, keys, mainVars, dlVars>>

\* NextPageErr as it would be with log.Fatalf in place of log.Printf
NextPageErrFatal ==
    /\ AtLoopHead
    /\ HasMorePages(Top)
    /\ failedAt' = failedAt \cup {Top.prefix}
    /\ stack' = <<>>
    /\ mainPc' = IF mainPc = "off" THEN "off" ELSE "fatal"
    /\ UNCHANGED <<toolVars, ns, start, keys, phases, dlVars>>

\* NextPageErr as it would be if it put an error mark in the collection
NextPageErrMarksKeys ==
    /\ AtLoopHead
    /\ HasMorePages(Top)
    /\ failedAt' = failedAt \cup {Top.prefix}
    /\ keys' = Append(keys, Top.prefix)
    /\ stack' = Pop
    /\ UNCHANGED <<toolVars, ns, start, mainVars, dlVars>>

\* lines 79-83, err # nil: log and return from this call
NextPageErr ==
    /\ AtLoopHead
    /\ HasMorePages(Top)
    /\ failedAt' = failedAt \cup {Top.prefix}
    /\ stack' = Pop
    /\ UNCHANGED <<toolVars, ns, start, keys, mainVars, dlVars>>

\* Recurse as it would be if line 86 passed prefix instead of *cp.Prefix
RecurseSamePrefix ==
    /\ stack # <<>>
    /\ Top.cps # <<>>
    /\ stack' = Append(SetTop([Top EXCEPT !.cps = Tail(Top.cps)]),
                       NewFrame(Top.prefix))
    /\ UNCHANGED <<toolVars, ns, start, keys, failedAt, mainVars, dlVars>>

\* lines 85-87: the recursive call on the next common prefix of the page
Recurse ==
    /\ stack # <<>>
    /\ Top.cps # <<>>
    /\ stack' = Append(SetTop([Top EXCEPT !.cps = Tail(Top.cps)]),
                       NewFrame(Head(Top.cps)))
    /\ UNCHANGED <<toolVars, ns, start, keys, failedAt, mainVars, dlVars>>

\* VisitContent as it would be without the suffix test of line 90
VisitContentUnfiltered ==
    /\ stack # <<>>
    /\ Top.cps = <<>>
    /\ Top.objs # <<>>
    /\ keys' = Append(keys, Head(Top.objs))
    /\ stack' = SetTop([Top EXCEPT !.objs = Tail(Top.objs)])
    /\ UNCHANGED <<toolVars, ns, start, failedAt, mainVars, dlVars>>

\* VisitContent as it would be if line 93 appended the key once more
VisitContentAppendsTwice ==
    /\ stack # <<>>
    /\ Top.cps = <<>>
    /\ Top.objs # <<>>
    /\ keys' = IF HasSuffix(Head(Top.objs), GzSuffix)
               THEN keys \o << Head(Top.objs), Head(Top.objs) >>
               ELSE keys
    /\ stack' = SetTop([Top EXCEPT !.objs = Tail(Top.objs)])
    /\ UNCHANGED <<toolVars, ns, start, failedAt, mainVars, dlVars>>

\* lines 89-95: one object of the page, appended when it has the suffix
VisitContent ==
    /\ stack # <<>>
    /\ Top.cps = <<>>
    /\ Top.objs # <<>>
    /\ keys' = IF HasSuffix(Head(Top.objs), GzSuffix)
               THEN Append(keys, Head(Top.objs))
               ELSE keys
    /\ stack' = SetTop([Top EXCEPT !.objs = Tail(Top.objs)])
    /\ UNCHANGED <<toolVars, ns, start, failedAt, mainVars, dlVars>>

\* lines 78 and 97: no more pages, the call returns
Return ==
    /\ AtLoopHead
    /\ ~HasMorePages(Top)
    /\ stack' = Pop
    /\ UNCHANGED <<toolVars, ns, start, keys, failedAt, mainVars, dlVars>>

\* What a call of collectRecursive on prefix P appends when no listing call
\* fails, as the set of the sequences the cuts of the listings into pages
\* allow: per page, first the recursive calls on its common prefixes, then its
\* contents that have the suffix (lines 78-96).
RECURSIVE Outputs(_, _), PagesOut(_, _), PrefixesOut(_, _)
Outputs(b, P) == PagesOut(b, ListingOf(b, P))

PagesOut(b, rest) ==
    IF rest = <<>> THEN { <<>> }
    ELSE UNION { { p \o c \o t :
                     p \in PrefixesOut(b, Select(SubSeq(rest, 1, n), TRUE)),
                     c \in { SelectSeq(Select(SubSeq(rest, 1, n), FALSE),
                                       LAMBDA k : HasSuffix(k, GzSuffix)) },
                     t \in PagesOut(b, SubSeq(rest, n + 1, Len(rest))) } :
                 n \in 1..Len(rest) }

PrefixesOut(b, cps) ==
    IF cps = <<>> THEN { <<>> }
    ELSE { h \o t : h \in Outputs(b, Head(cps)), t \in PrefixesOut(b, Tail(cps)) }

NextCollect == NextPageOk \/ NextPageErr \/ Recurse \/ VisitContent \/ Return


----------------------------------------------------------------------------
(* Local paths: path/filepath as downloadFiles uses it (lines 112-113) *)

\* "/tmp/downloads/", main's localDir (line 27)
LocalDir == << "/", "t", "m", "p", "/", "d", "o", "w", "n", "l", "o", "a",
               "d", "s", "/" >>

\* the elements of s between its "/"s, the empty ones included
RECURSIVE SplitSlash(_)
SplitSlash(s) ==
    LET i == IndexFrom(s, 1)
    IN  IF i = 0 THEN << s >>
        ELSE << SubSeq(s, 1, i - 1) >> \o SplitSlash(SubSeq(s, i + 1, Len(s)))

\* the elements joined by "/"
RECURSIVE JoinSlash(_)
JoinSlash(segs) ==
    IF segs = <<>> THEN <<>>
    ELSE IF Len(segs) = 1 THEN segs[1]
    ELSE segs[1] \o << Slash >> \o JoinSlash(Tail(segs))

Dot == << "." >>
DotDot == << ".", "." >>

\* filepath.Clean's pass over the elements: empty and "." elements go, ".."
\* takes the element before it (or stays, at the head of a relative path)
RECURSIVE CleanSegs(_, _, _)
CleanSegs(segs, out, rooted) ==
    IF segs = <<>> THEN out
    ELSE LET g == Head(segs)
         IN  IF g = <<>> \/ g = Dot THEN CleanSegs(Tail(segs), out, rooted)
             ELSE IF g = DotDot
             THEN IF out # <<>> /\ out[Len(out)] # DotDot
                  THEN CleanSegs(Tail(segs), SubSeq(out, 1, Len(out) - 1), rooted)
                  ELSE IF rooted THEN CleanSegs(Tail(segs), out, rooted)
                  ELSE CleanSegs(Tail(segs), Append(out, g), rooted)
             ELSE CleanSegs(Tail(segs), Append(out, g), rooted)

\* filepath.Clean
Clean(s) ==
    IF s = <<>> THEN Dot
    ELSE LET rooted == s[1] = Slash
             body   == JoinSlash(CleanSegs(SplitSlash(s), <<>>, rooted))
         IN  IF rooted THEN << Slash >> \o body
             ELSE IF body = <<>> THEN Dot ELSE body

\* filepath.Join(a, b): the non-empty elements joined by "/", then cleaned
Join(a, b) ==
    IF a = <<>> /\ b = <<>> THEN <<>>
    ELSE IF a = <<>> THEN Clean(b)
    ELSE IF b = <<>> THEN Clean(a)
    ELSE Clean(a \o << Slash >> \o b)

\* the index of the last "/" of s, 0 when there is none
RECURSIVE LastSlash(_, _)
LastSlash(s, i) ==
    IF i = 0 THEN 0 ELSE IF s[i] = Slash THEN i ELSE LastSlash(s, i - 1)

\* filepath.Dir: the path up to its last "/", cleaned
Dir(path) == Clean(SubSeq(path, 1, LastSlash(path, Len(path))))

\* line 112: filePath := filepath.Join(localDir, key)
FilePath(key) == Join(LocalDir, key)

\* the directories os.MkdirAll(d) makes exist: d and every directory above it
MkdirAllDirs(d) ==
    {d} \cup { SubSeq(d, 1, i - 1) : i \in { j \in 2..Len(d) : d[j] = Slash } }

----------------------------------------------------------------------------
(* downloadFiles, lines 100-138 *)

\* the keys a modelled key list is drawn from, in one order
DlUniverse == << KeyAX, KeyASX, KeyABY, KeyCU >>

\* The key lists: up to MaxKeys keys of DlUniverse, no key twice (what
\* collectRecursive hands over holds no key twice), in DlUniverse's order:
\* the goroutines of a list run in every order whatever the list's order.
KeyLists ==
    { [i \in 1..Len(ix) |-> DlUniverse[ix[i]]] :
        ix \in { s \in UNION { [1..n -> DOMAIN DlUniverse] : n \in 0..MaxKeys } :
                   \A i, j \in DOMAIN s : i < j => s[i] < s[j] } }

LocalPaths == { FilePath(DlUniverse[i]) : i \in DOMAIN DlUniverse }

\* filePath (line 112) and the directories MkdirAll makes exist (line 113) for
\* each key of DlUniverse, and the directories of main's MkdirAll (line 31),
\* each computed once
PathOf == [k \in Range(DlUniverse) |-> FilePath(k)]

DirsOf == [k \in Range(DlUniverse) |-> MkdirAllDirs(Dir(FilePath(k)))]

RootDirs == MkdirAllDirs(Clean(LocalDir))

\* What a failed os.MkdirAll can have made of the directories D when nothing
\* else runs beside it (main's call, line 31): it makes the parents first and
\* does not undo them, so the ones down to some depth, never all of them.
PartlyMade(D) ==
    { { d \in D : Len(d) <= n } : n \in {0} \cup { Len(d) : d \in D } } \ {D}

\* that for main's call, computed once
RootPartDirs == PartlyMade(RootDirs)

\* How many file.WriteAt calls write one full part. downloader.Download fetches
\* an object in parts (5 MiB) and io.Copy writes the body of each in buffers
\* (32 KiB), one WriteAt call per buffer, at the offset reached; the model
\* takes fewer calls per part.
UnitsPerPart == 2

\* The content of a file: per stretch of the length of one WriteAt call (a
\* unit), the key of the object whose bytes lie there.
Absent == [st |-> "absent", data |-> <<>>]

\* what os.Create leaves: the file, empty
Empty == [st |-> "present", data |-> <<>>]

\* a unit nothing was written to, before the end of the file: zero bytes
Hole == <<>>

\* the length of each object in units: a/x.json.gz is longer than one part,
\* a//x.json.gz and a/b/y.json.gz take two calls, c/u.json.gz one
SizeOf == [k \in Range(DlUniverse) |->
              IF k = KeyAX THEN UnitsPerPart + 1
              ELSE IF k \in {KeyASX, KeyABY} THEN 2
              ELSE 1]

\* the units of the object of key k
UnitsOf(k) == 1..SizeOf[k]

\* the part a unit belongs to
PartOf(u) == ((u - 1) \div UnitsPerPart) + 1

\* the units of part p of the object of key k
UnitsOfPart(k, p) == { u \in UnitsOf(k) : PartOf(u) = p }

\* How often one call of downloader.Download fetches a part again after its
\* body failed; the library tries each part up to 3 more times, the model
\* takes fewer.
MaxRetries == 1

\* the file that holds the object of key k and nothing else
Complete(k) == [st |-> "present", data |-> [u \in UnitsOf(k) |-> k]]

\* file.WriteAt of unit u of the object of key k: it replaces the bytes of that
\* unit only, truncates nothing, and leaves a hole when the file ended before
\* the unit's offset
WriteAt(data, u, k) ==
    [q \in 1..(IF u > Len(data) THEN u ELSE Len(data)) |->
        IF q = u THEN k ELSE IF q <= Len(data) THEN data[q] ELSE Hole]

\* a goroutine's call counts before it is started
NoCalls == [started |-> 0, sent |-> 0, received |-> 0,
            mkdirs |-> 0, creates |-> 0, downloads |-> 0, written |-> {},
            retries |-> 0]

Tasks == 1..Len(dkeys)

\* the goroutine holds a slot: it has sent to sem and not yet received from it
HoldsSlot(i) == tpc[i] \in {"mkdir", "create", "download", "close", "release"}

\* the goroutine has filePath open for writing (lines 118-123)
HasOpen(i) == tpc[i] \in {"download", "close"}

\* lines 104-106: one iteration of the loop; wg.Add(1) and the go statement
Launch ==
    /\ dlPc = "loop"
    /\ launched < Len(dkeys)
    /\ launched' = launched + 1
    /\ wg' = wg + 1
    /\ tpc' = [tpc EXCEPT ![launched + 1] = "acquire"]
    /\ hist' = [hist EXCEPT ![launched + 1].started = @ + 1]
    /\ UNCHANGED <<toolVars, dkeys, dlPc, sem, files, dirs, outcome, collectVars, mainVars>>

\* Acquire as it would be if the send never blocked
AcquireUnbounded(i) ==
    /\ tpc[i] = "acquire"
    /\ sem' = sem + 1
    /\ tpc' = [tpc EXCEPT ![i] = "mkdir"]
    /\ hist' = [hist EXCEPT ![i].sent = @ + 1]
    /\ UNCHANGED <<toolVars, dkeys, dlPc, launched, wg, files, dirs, outcome, collectVars, mainVars>>

\* line 108: sem <- struct{}{}, which blocks while the channel is full
Acquire(i) ==
    /\ tpc[i] = "acquire"
    /\ sem < SemCap
    /\ sem' = sem + 1
    /\ tpc' = [tpc EXCEPT ![i] = "mkdir"]
    /\ hist' = [hist EXCEPT ![i].sent = @ + 1]
    /\ UNCHANGED <<toolVars, dkeys, dlPc, launched, wg, files, dirs, outcome, collectVars, mainVars>>

\* line 113, inside os.MkdirAll: one mkdir. The call makes the missing
\* directories one by one, the parents first; other goroutines run between
\* the mkdirs, and a directory another goroutine made meanwhile is not an error.
Mkdir(i) ==
    /\ tpc[i] = "mkdir"
    /\ DirsOf[dkeys[i]] \ dirs # {}
    /\ LET M == DirsOf[dkeys[i]] \ dirs
       IN  dirs' = dirs \cup { CHOOSE d \in M : \A e \in M : Len(d) <= Len(e) }
    /\ UNCHANGED <<toolVars, dkeys, dlPc, launched, wg, sem, tpc, files, outcome, hist,
                   collectVars, mainVars>>

\* MkdirAll as it would be if the error return skipped the receive from sem
MkdirAllErrKeepsSlot(i) ==
    /\ tpc[i] = "mkdir"
    /\ \/ /\ DirsOf[dkeys[i]] \subseteq dirs
          /\ tpc' = [tpc EXCEPT ![i] = "create"]
          /\ UNCHANGED outcome
       \/ /\ outcome' = [outcome EXCEPT ![i] = "mkdirErr"]
          /\ tpc' = [tpc EXCEPT ![i] = "wgdone"]
    /\ hist' = [hist EXCEPT ![i].mkdirs = @ + 1]
    /\ UNCHANGED <<toolVars, dkeys, dlPc, launched, wg, sem, files, dirs, collectVars, mainVars>>

\* lines 112-116: os.MkdirAll(filepath.Dir(filePath)) returns: without an error
\* when the directories are all there, with one at any time, the directories
\* made until then left behind; on an error log, return
MkdirAll(i) ==
    /\ tpc[i] = "mkdir"
    /\ \/ /\ DirsOf[dkeys[i]] \subseteq dirs
          /\ tpc' = [tpc EXCEPT ![i] = "create"]
          /\ UNCHANGED outcome
       \/ /\ outcome' = [outcome EXCEPT ![i] = "mkdirErr"]
          /\ tpc' = [tpc EXCEPT ![i] = "release"]
    /\ hist' = [hist EXCEPT ![i].mkdirs = @ + 1]
    /\ UNCHANGED <<toolVars, dkeys, dlPc, launched, wg, sem, files, dirs, collectVars, mainVars>>

\* Create as it would be without the return of line 121
CreateErrFallsThrough(i) ==
    /\ tpc[i] = "create"
    /\ \/ /\ files' = [files EXCEPT ![PathOf[dkeys[i]]] = Empty]
          /\ UNCHANGED outcome
       \/ /\ outcome' = [outcome EXCEPT ![i] = "createErr"]
          /\ UNCHANGED files
    /\ tpc' = [tpc EXCEPT ![i] = "download"]
    /\ hist' = [hist EXCEPT ![i].creates = @ + 1]
    /\ UNCHANGED <<toolVars, dkeys, dlPc, launched, wg, sem, dirs, collectVars, mainVars>>

\* Create as it would be if the error return skipped the receive from sem
CreateErrKeepsSlot(i) ==
    /\ tpc[i] = "create"
    /\ \/ /\ files' = [files EXCEPT ![PathOf[dkeys[i]]] = Empty]
          /\ tpc' = [tpc EXCEPT ![i] = "download"]
          /\ UNCHANGED outcome
       \/ /\ outcome' = [outcome EXCEPT ![i] = "createErr"]
          /\ tpc' = [tpc EXCEPT ![i] = "wgdone"]
          /\ UNCHANGED files
    /\ hist' = [hist EXCEPT ![i].creates = @ + 1]
    /\ UNCHANGED <<toolVars, dkeys, dlPc, launched, wg, sem, dirs, collectVars, mainVars>>

\* lines 118-123: os.Create(filePath) creates or truncates the file; on an
\* error log, return
Create(i) ==
    /\ tpc[i] = "create"
    /\ \/ /\ files' = [files EXCEPT ![PathOf[dkeys[i]]] = Empty]
          /\ tpc' = [tpc EXCEPT ![i] = "download"]
          /\ UNCHANGED outcome
       \/ /\ outcome' = [outcome EXCEPT ![i] = "createErr"]
          /\ tpc' = [tpc EXCEPT ![i] = "release"]
          /\ UNCHANGED files
    /\ hist' = [hist EXCEPT ![i].creates = @ + 1]
    /\ UNCHANGED <<toolVars, dkeys, dlPc, launched, wg, sem, dirs, collectVars, mainVars>>

\* lines 125-128, inside downloader.Download: one WriteAt call. The units of a
\* part are written in their order; the first part is fetched whole before the
\* others (its response tells the object's size), the others side by side.
\* Other goroutines run between the calls.
DownloadWriteAt(i) ==
    /\ tpc[i] = "download"
    /\ \E u \in UnitsOf(dkeys[i]) \ hist[i].written :
          /\ \/ (u - 1) % UnitsPerPart = 0
             \/ u - 1 \in hist[i].written
          /\ \/ PartOf(u) = 1
             \/ UnitsOfPart(dkeys[i], 1) \subseteq hist[i].written
          /\ files' = [files EXCEPT ![PathOf[dkeys[i]]].data = WriteAt(@, u, dkeys[i])]
          /\ hist' = [hist EXCEPT ![i].written = @ \cup {u}]
    /\ UNCHANGED <<toolVars, dkeys, dlPc, launched, wg, sem, tpc, dirs, outcome,
                   collectVars, mainVars>>

\* lines 125-128, inside downloader.Download: the body of a part failed after
\* some of it was written, and the part is fetched again: its units are
\* written once more from its first, over whatever the file holds by then.
\* (A new attempt of a part of which nothing was written changes nothing.)
DownloadRetryPart(i) ==
    /\ tpc[i] = "download"
    /\ hist[i].retries < MaxRetries
    /\ \E u \in hist[i].written :
          /\ ~(UnitsOfPart(dkeys[i], PartOf(u)) \subseteq hist[i].written)
          /\ hist' = [hist EXCEPT ![i].written = @ \ UnitsOfPart(dkeys[i], PartOf(u)),
                                  ![i].retries = @ + 1]
    /\ UNCHANGED <<toolVars, dkeys, dlPc, launched, wg, sem, tpc, files, dirs, outcome,
                   collectVars, mainVars>>

\* Download as it would be if a failed download were tried again
DownloadRetried(i) ==
    /\ tpc[i] = "download"
    /\ \/ /\ hist[i].written = UnitsOf(dkeys[i])
          /\ outcome' = [outcome EXCEPT ![i] = "ok"]
          /\ tpc' = [tpc EXCEPT ![i] = "close"]
          /\ hist' = [hist EXCEPT ![i].downloads = @ + 1,
                                  ![i].written = {}, ![i].retries = 0]
       \/ /\ outcome' = [outcome EXCEPT ![i] = "downloadErr"]
          /\ hist' = [hist EXCEPT ![i].downloads = @ + 1,
                                  ![i].written = {}, ![i].retries = 0]
          /\ UNCHANGED tpc
    /\ UNCHANGED <<toolVars, dkeys, dlPc, launched, wg, sem, files, dirs, collectVars, mainVars>>

\* lines 125-133: downloader.Download returns, and the log line: without an
\* error when the whole object is written, with an error at any time before,
\* what was written until then left in the file; the call's record of its
\* parts ends with it
Download(i) ==
    /\ tpc[i] = "download"
    /\ \/ /\ hist[i].written = UnitsOf(dkeys[i])
          /\ outcome' = [outcome EXCEPT ![i] = "ok"]
       \/ /\ hist[i].written # UnitsOf(dkeys[i])
          /\ outcome' = [outcome EXCEPT ![i] = "downloadErr"]
    /\ tpc' = [tpc EXCEPT ![i] = "close"]
    /\ hist' = [hist EXCEPT ![i].downloads = @ + 1,
                            ![i].written = {}, ![i].retries = 0]
    /\ UNCHANGED <<toolVars, dkeys, dlPc, launched, wg, sem, files, dirs, collectVars, mainVars>>

\* line 123, deferred: file.Close()
Close(i) ==
    /\ tpc[i] = "close"
    /\ tpc' = [tpc EXCEPT ![i] = "release"]
    /\ UNCHANGED <<toolVars, dkeys, dlPc, launched, wg, sem, files, dirs, outcome, hist,
                   collectVars, mainVars>>

\* line 109, deferred: <-sem
Release(i) ==
    /\ tpc[i] = "release"
    /\ sem > 0
    /\ sem' = sem - 1
    /\ tpc' = [tpc EXCEPT ![i] = "wgdone"]
    /\ hist' = [hist EXCEPT ![i].received = @ + 1]
    /\ UNCHANGED <<toolVars, dkeys, dlPc, launched, wg, files, dirs, outcome, collectVars, mainVars>>

\* Done as it would be if the goroutine ended without wg.Done()
DoneForgotten(i) ==
    /\ tpc[i] = "wgdone"
    /\ tpc' = [tpc EXCEPT ![i] = "end"]
    /\ UNCHANGED <<toolVars, dkeys, dlPc, launched, wg, sem, files, dirs, outcome, hist,
                   collectVars, mainVars>>

\* line 107, deferred: wg.Done(), and the goroutine ends
Done(i) ==
    /\ tpc[i] = "wgdone"
    /\ wg' = wg - 1
    /\ tpc' = [tpc EXCEPT ![i] = "end"]
    /\ UNCHANGED <<toolVars, dkeys, dlPc, launched, sem, files, dirs, outcome, hist,
                   collectVars, mainVars>>

\* WaitReturn as it would be without wg.Wait()
ReturnWithoutWait ==
    /\ dlPc = "loop"
    /\ launched = Len(dkeys)
    /\ dlPc' = "returned"
    /\ UNCHANGED <<toolVars, dkeys, launched, wg, sem, tpc, files, dirs, outcome, hist,
                   collectVars, mainVars>>

\* lines 104 and 137-138: the loop is over, wg.Wait() returns at counter 0
WaitReturn ==
    /\ dlPc = "loop"
    /\ launched = Len(dkeys)
    /\ wg = 0
    /\ dlPc' = "returned"
    /\ UNCHANGED <<toolVars, dkeys, launched, wg, sem, tpc, files, dirs, outcome, hist,
                   collectVars, mainVars>>

NextDownload ==
    \/ Launch
    \/ \E i \in Tasks : Acquire(i)
    \/ \E i \in Tasks : Mkdir(i)
    \/ \E i \in Tasks : MkdirAll(i)
    \/ \E i \in Tasks : Create(i)
    \/ \E i \in Tasks : DownloadWriteAt(i)
    \/ \E i \in Tasks : DownloadRetryPart(i)
    \/ \E i \in Tasks : Download(i)
    \/ \E i \in Tasks : Close(i)
    \/ \E i \in Tasks : Release(i)
    \/ \E i \in Tasks : Done(i)
    \/ WaitReturn

\* downloadFiles is not running
DlIdle ==
    /\ dkeys = <<>>
    /\ dlPc = "off"
    /\ launched = 0
    /\ wg = 0
    /\ sem = 0
    /\ tpc = <<>>
    /\ files = [p \in LocalPaths |-> Absent]
    /\ dirs = RootDirs
    /\ outcome = <<>>
    /\ hist = <<>>

\* collectRecursive is not running
CollectIdle ==
    /\ ns = {}
    /\ start = <<>>
    /\ stack = <<>>
    /\ keys = <<>>
    /\ failedAt = {}

----------------------------------------------------------------------------
(* createZip, lines 141-180 *)

\* sourceDir: main's (commented) call passes localDir (line 56)
SourceDir == LocalDir

\* the most files and directories beneath sourceDir
MaxTree == 3

\* what can lie beneath sourceDir: directories, regular files, and a symbolic
\* link (not a directory for Lstat, so not for info.IsDir() either)
ZipUniverse ==
    { [name |-> << "a" >>,           kind |-> "dir"],
      [name |-> << "a", "/", "x" >>, kind |-> "file"],
      [name |-> << "a", ".", "b" >>, kind |-> "file"],
      [name |-> << "c" >>,           kind |-> "dir"],
      [name |-> << "z" >>,           kind |-> "link"] }

\* the trees: a node's directory is sourceDir or in the tree
ZipShapes ==
    { S \in SUBSET ZipUniverse :
        /\ Cardinality(S) <= MaxTree
        /\ \A n \in S : \/ Dir(n.name) = Dot
                        \/ \E d \in S : d.kind = "dir" /\ d.name = Dir(n.name) }

\* p before q element by element, each element in byte order: the order in
\* which filepath.Walk, which sorts the names of each directory, meets them
RECURSIVE SegsLess(_, _)
SegsLess(p, q) ==
    IF q = <<>> THEN FALSE
    ELSE IF p = <<>> THEN TRUE
    ELSE IF Head(p) = Head(q) THEN SegsLess(Tail(p), Tail(q))
    ELSE LexLess(Head(p), Head(q))

RECURSIVE WalkOrder(_)
WalkOrder(S) ==
    IF S = {} THEN <<>>
    ELSE LET m == CHOOSE x \in S : \A y \in S \ {x} :
                      SegsLess(SplitSlash(x.name), SplitSlash(y.name))
         IN  << m >> \o WalkOrder(S \ {m})

\* where the visit of a node fails: nowhere, before the walk function can look
\* at it (Lstat or the reading of a directory), or in zipWriter.Create, os.Open
\* or io.Copy
ZipFails(kind) ==
    IF kind = "dir" THEN {"none", "visit"}
    ELSE {"none", "visit", "create", "open", "copy"}

\* the walks: sourceDir itself first (its name is empty), then its tree
ZipWalks ==
    UNION { { [i \in 1..(Len(f)) |->
                 IF i = 1 THEN [name |-> <<>>, kind |-> "dir", fail |-> f[1]]
                 ELSE [name |-> WalkOrder(S)[i - 1].name,
                       kind |-> WalkOrder(S)[i - 1].kind, fail |-> f[i]]] :
              f \in { g \in [1..(Cardinality(S) + 1) ->
                               {"none", "visit", "create", "open", "copy"}] :
                        /\ g[1] \in ZipFails("dir")
                        /\ \A i \in 2..(Cardinality(S) + 1) :
                              g[i] \in ZipFails(WalkOrder(S)[i - 1].kind) } } :
            S \in ZipShapes }

\* the path the walk function gets for a node: sourceDir as given for the
\* root, filepath.Join(dir, name) beneath it
WalkPath(name) == IF name = <<>> THEN SourceDir ELSE Join(SourceDir, name)

\* how many leading elements p and q share
RECURSIVE CommonLen(_, _)
CommonLen(p, q) ==
    IF p = <<>> \/ q = <<>> \/ Head(p) # Head(q) THEN 0
    ELSE 1 + CommonLen(Tail(p), Tail(q))

\* the elements of a cleaned path: the names between its "/"s; the root "/"
\* has none
Elements(p) == SelectSeq(SplitSlash(p), LAMBDA g : g # <<>>)

\* filepath.Rel(base, targ) (line 159)
Rel(base, targ) ==
    LET b  == Clean(base)
        t  == Clean(targ)
        bs == IF b = Dot THEN <<>> ELSE Elements(b)
        ts == IF t = Dot THEN <<>> ELSE Elements(t)
        n  == CommonLen(bs, ts)
    IN  IF t = b THEN [ok |-> TRUE, path |-> Dot]
        ELSE IF (b[1] = Slash) # (t[1] = Slash) THEN [ok |-> FALSE, path |-> <<>>]
        ELSE IF \E i \in (n + 1)..Len(bs) : bs[i] = DotDot
             THEN [ok |-> FALSE, path |-> <<>>]
        ELSE [ok |-> TRUE,
              path |-> JoinSlash([i \in 1..(Len(bs) - n) |-> DotDot]
                                 \o SubSeq(ts, n + 1, Len(ts)))]

\* relPath (line 159) for each name beneath sourceDir, computed once
RelOf == [n \in { u.name : u \in ZipUniverse } |-> Rel(SourceDir, WalkPath(n))]

\* the node the next call of the walk function is for
ZipCur == tree[zidx + 1]

\* lines 142-149: os.Create(zipPath) and the writer on it
ZipCreateArchive ==
    /\ zpc = "create"
    /\ \/ /\ zpc' = "walk"
          /\ UNCHANGED zerr
       \/ /\ zpc' = "returned"
          /\ zerr' = [step |-> "archive", at |-> <<>>]
    /\ UNCHANGED <<tree, zidx, entries, collectVars, mainVars, dlVars, sweepVars>>

\* lines 152-154 and 179: the walk function is called with an error and returns
\* it; filepath.Walk stops and createZip returns the error
ZipVisitErr ==
    /\ zpc = "walk"
    /\ zidx < Len(tree)
    /\ ZipCur.fail = "visit"
    /\ zidx' = zidx + 1
    /\ zerr' = [step |-> "visit", at |-> ZipCur.name]
    /\ zpc' = "returned"
    /\ UNCHANGED <<tree, entries, collectVars, mainVars, dlVars, sweepVars>>

\* lines 155-157: a directory
ZipVisitDir ==
    /\ zpc = "walk"
    /\ zidx < Len(tree)
    /\ ZipCur.fail # "visit"
    /\ ZipCur.kind = "dir"
    /\ zidx' = zidx + 1
    /\ UNCHANGED <<tree, zpc, entries, zerr, collectVars, mainVars, dlVars, sweepVars>>

\* ZipVisitFile as it would be if it logged an error and returned nil
ZipVisitFileErrContinues ==
    /\ zpc = "walk"
    /\ zidx < Len(tree)
    /\ ZipCur.fail # "visit"
    /\ ZipCur.kind # "dir"
    /\ zidx' = zidx + 1
    /\ entries' = IF ZipCur.fail = "create" THEN entries
                  ELSE Append(entries, RelOf[ZipCur.name].path)
    /\ UNCHANGED <<tree, zpc, zerr, collectVars, mainVars, dlVars, sweepVars>>

\* lines 159-176, and 179 after an error: anything that is not a directory gets
\* an entry named by its relative path and its content is copied into it; the
\* first error among Rel, Create, Open and Copy is returned
ZipVisitFile ==
    /\ zpc = "walk"
    /\ zidx < Len(tree)
    /\ ZipCur.fail # "visit"
    /\ ZipCur.kind # "dir"
    /\ zidx' = zidx + 1
    /\ LET r == RelOf[ZipCur.name]
       IN  IF ~r.ok
           THEN /\ zerr' = [step |-> "rel", at |-> ZipCur.name]
                /\ zpc' = "returned"
                /\ UNCHANGED entries
           ELSE IF ZipCur.fail = "create"
           THEN /\ zerr' = [step |-> "create", at |-> ZipCur.name]
                /\ zpc' = "returned"
                /\ UNCHANGED entries
           ELSE /\ entries' = Append(entries, r.path)
                /\ IF ZipCur.fail = "none"
                   THEN UNCHANGED <<zpc, zerr>>
                   ELSE /\ zerr' = [step |-> ZipCur.fail, at |-> ZipCur.name]
                        /\ zpc' = "returned"
    /\ UNCHANGED <<tree, collectVars, mainVars, dlVars, sweepVars>>

\* line 179: the walk is through, createZip returns nil
ZipReturn ==
    /\ zpc = "walk"
    /\ zidx = Len(tree)
    /\ zpc' = "returned"
    /\ UNCHANGED <<tree, zidx, entries, zerr, collectVars, mainVars, dlVars, sweepVars>>

NextZip ==
    \/ ZipCreateArchive
    \/ ZipVisitErr
    \/ ZipVisitDir
    \/ ZipVisitFile
    \/ ZipReturn

----------------------------------------------------------------------------
(* The Decompression Sweep, after the specification's sections 4.3 and 8 *)

\* how many sweeps are run one after the other on the tree
MaxRuns == 2

\* ".gz", what the sweep strips from a compressed file's name
GzExt == << ".", "g", "z" >>

\* the compressed files a swept tree can hold
SwGzNames == { KeyAX, KeyABY }

\* the sibling the sweep writes for a compressed file: the name without ".gz"
SwDest(n) == SubSeq(n, 1, Len(n) - Len(GzExt))

\* every file name of a swept tree
SwNames == SwGzNames \cup { SwDest(n) : n \in SwGzNames } \cup { KeyAZ }

\* the destination of each compressed file, computed once
DestOf == [n \in SwGzNames |-> SwDest(n)]

\* the trees before the first sweep: compressed files and a file of another
\* kind, as the transfers left them
SwTrees ==
    { [n \in SwNames |-> IF n \in G THEN "gz"
                         ELSE IF n = KeyAZ /\ o THEN "other"
                         ELSE "absent"] :
        G \in SUBSET SwGzNames, o \in BOOLEAN }

\* the files of the tree in the order of the walk
RECURSIVE SweepOrder(_)
SweepOrder(S) ==
    IF S = {} THEN <<>>
    ELSE LET m == CHOOSE x \in S : \A y \in S \ {x} :
                      SegsLess(SplitSlash(x), SplitSlash(y))
         IN  << m >> \o SweepOrder(S \ {m})

\* the walk of every set of files, computed once
OrderOf == [S \in SUBSET SwNames |-> SweepOrder(S)]

\* the file the sweep is at
SwCur == Head(swalk)

\* a step on the current file failed or ended: the outcome is logged and the
\* sweep goes on with the next file
SwLogAndNext(what) ==
    /\ slog' = Append(slog, [run |-> srun, name |-> SwCur, outcome |-> what])
    /\ swalk' = Tail(swalk)
    /\ spc' = "visit"

\* a sweep starts: it walks the tree as it is now
SweepStart ==
    /\ spc = "idle"
    /\ srun < MaxRuns
    /\ srun' = srun + 1
    /\ swalk' = OrderOf[{ n \in SwNames : sfiles[n] # "absent" }]
    /\ spc' = "visit"
    /\ UNCHANGED <<sfiles, slog, collectVars, mainVars, dlVars, zipVars>>

\* a file whose name has not the compressed-JSON suffix is left untouched
SweepSkip ==
    /\ spc = "visit"
    /\ swalk # <<>>
    /\ ~HasSuffix(SwCur, GzSuffix)
    /\ swalk' = Tail(swalk)
    /\ UNCHANGED <<sfiles, spc, srun, slog, collectVars, mainVars, dlVars, zipVars>>

\* open the compressed file
SweepOpen ==
    /\ spc = "visit"
    /\ swalk # <<>>
    /\ HasSuffix(SwCur, GzSuffix)
    /\ \/ /\ spc' = "reader"
          /\ UNCHANGED <<swalk, slog>>
       \/ SwLogAndNext("openErr")
    /\ UNCHANGED <<sfiles, srun, collectVars, mainVars, dlVars, zipVars>>

\* wrap it in a decompression stream
SweepReader ==
    /\ spc = "reader"
    /\ \/ /\ spc' = "create"
          /\ UNCHANGED <<swalk, slog>>
       \/ SwLogAndNext("gzipErr")
    /\ UNCHANGED <<sfiles, srun, collectVars, mainVars, dlVars, zipVars>>

\* open/create the destination file, empty
SweepCreateDest ==
    /\ spc = "create"
    /\ \/ /\ sfiles' = [sfiles EXCEPT ![DestOf[SwCur]] = "partial"]
          /\ spc' = "copy"
          /\ UNCHANGED <<swalk, slog>>
       \/ /\ SwLogAndNext("createErr")
          /\ UNCHANGED sfiles
    /\ UNCHANGED <<srun, collectVars, mainVars, dlVars, zipVars>>

\* SweepCopy as it would be if the failure of the copy were only logged
SweepCopyErrGoesOn ==
    /\ spc = "copy"
    /\ \/ sfiles' = [sfiles EXCEPT ![DestOf[SwCur]] = "json"]
       \/ UNCHANGED sfiles
    /\ spc' = "remove"
    /\ UNCHANGED <<swalk, slog, srun, collectVars, mainVars, dlVars, zipVars>>

\* copy the entire decompressed stream to the destination. A failed copy is
\* logged and the file skipped; section 4.3 has the destination created before
\* the copy, section 8 has no partial destination left: both are modelled.
SweepCopy ==
    /\ spc = "copy"
    /\ \/ /\ sfiles' = [sfiles EXCEPT ![DestOf[SwCur]] = "json"]
          /\ spc' = "remove"
          /\ UNCHANGED <<swalk, slog>>
       \/ /\ SwLogAndNext("copyErr")
          /\ \/ UNCHANGED sfiles
             \/ sfiles' = [sfiles EXCEPT ![DestOf[SwCur]] = "absent"]
    /\ UNCHANGED <<srun, collectVars, mainVars, dlVars, zipVars>>

\* SweepRemove as it would be if the original were never removed
SweepRemoveForgotten ==
    /\ spc = "remove"
    /\ SwLogAndNext("done")
    /\ UNCHANGED <<sfiles, srun, collectVars, mainVars, dlVars, zipVars>>

\* both files closed, remove the original; a failed removal is logged as a
\* warning and both files stay
SweepRemove ==
    /\ spc = "remove"
    /\ \/ /\ sfiles' = [sfiles EXCEPT ![SwCur] = "absent"]
          /\ SwLogAndNext("done")
       \/ /\ SwLogAndNext("removeWarn")
          /\ UNCHANGED sfiles
    /\ UNCHANGED <<srun, collectVars, mainVars, dlVars, zipVars>>

\* the walk is through
SweepEnd ==
    /\ spc = "visit"
    /\ swalk = <<>>
    /\ spc' = "idle"
    /\ UNCHANGED <<sfiles, swalk, srun, slog, collectVars, mainVars, dlVars, zipVars>>

NextSweep ==
    \/ SweepStart
    \/ SweepSkip
    \/ SweepOpen
    \/ SweepReader
    \/ SweepCreateDest
    \/ SweepCopy
    \/ SweepRemove
    \/ SweepEnd

\* no error
NoErr == [step |-> "none", at |-> <<>>]

\* createZip is not running
ZipIdle ==
    /\ tree = <<>>
    /\ zpc = "off"
    /\ zidx = 0
    /\ entries = <<>>
    /\ zerr = NoErr

\* no sweep is running
SweepIdle ==
    /\ sfiles = <<>>
    /\ swalk = <<>>
    /\ spc = "off"
    /\ srun = 0
    /\ slog = <<>>

\* collectRecursive called on its own, on any bucket and starting prefix
InitCollect ==
    /\ ns \in Buckets
    /\ start \in StartPrefixes
    /\ stack = << [ prefix |-> start, first |-> TRUE,
                    rest |-> ListingOf(ns, start), cps |-> <<>>, objs |-> <<>> ] >>
    /\ keys = <<>>
    /\ failedAt = {}
    /\ mainPc = "off"
    /\ phases = <<>>
    /\ DlIdle
    /\ ZipIdle
    /\ SweepIdle

SpecCollect == InitCollect /\ [][NextCollect]_vars

\* collectRecursive when every listing call returns
SpecCollectFair == SpecCollect /\ WF_vars(NextCollect)

\* downloadFiles called on its own on any key list, the local root empty:
\* lines 101-102
InitDownload ==
    /\ dkeys \in KeyLists
    /\ dlPc = "loop"
    /\ launched = 0
    /\ wg = 0
    /\ sem = 0
    /\ tpc = [i \in 1..Len(dkeys) |-> "none"]
    /\ files = [p \in LocalPaths |-> Absent]
    /\ dirs = RootDirs
    /\ outcome = [i \in 1..Len(dkeys) |-> "none"]
    /\ hist = [i \in 1..Len(dkeys) |-> NoCalls]
    /\ CollectIdle
    /\ mainPc = "off"
    /\ phases = <<>>
    /\ ZipIdle
    /\ SweepIdle

SpecDownload == InitDownload /\ [][NextDownload]_vars

\* downloadFiles under a scheduler that runs some runnable goroutine, each of
\* whose library calls returns
SpecDownloadFair == SpecDownload /\ WF_vars(NextDownload)

\* createZip called on its own on any tree
InitZip ==
    /\ tree \in ZipWalks
    /\ zpc = "create"
    /\ zidx = 0
    /\ entries = <<>>
    /\ zerr = NoErr
    /\ CollectIdle
    /\ DlIdle
    /\ SweepIdle
    /\ mainPc = "off"
    /\ phases = <<>>

SpecZip == InitZip /\ [][NextZip]_vars

\* the sweep run on any tree the transfers can leave, and run again
InitSweep ==
    /\ sfiles \in SwTrees
    /\ swalk = <<>>
    /\ spc = "idle"
    /\ srun = 0
    /\ slog = <<>>
    /\ CollectIdle
    /\ DlIdle
    /\ ZipIdle
    /\ mainPc = "off"
    /\ phases = <<>>

SpecSweep == InitSweep /\ [][NextSweep]_vars

----------------------------------------------------------------------------
(* main, lines 20-67 *)

\* lines 31-33: os.MkdirAll(localDir); log.Fatalf ends the process on an
\* error, the parents made before it left behind
MainMkdirAll ==
    /\ mainPc = "mkdir"
    /\ \/ /\ dirs' = dirs \cup RootDirs
          /\ mainPc' = "config"
       \/ /\ mainPc' = "fatal"
          /\ \E P \in RootPartDirs : dirs' = dirs \cup P
    /\ UNCHANGED <<toolVars, phases, collectVars, dkeys, dlPc, launched, wg, sem, tpc, files,
                   outcome, hist>>

\* lines 36-42: config.LoadDefaultConfig; log.Fatalf ends the process on an error
MainLoadConfig ==
    /\ mainPc = "config"
    /\ \/ mainPc' = "collect"
       \/ mainPc' = "fatal"
    /\ UNCHANGED <<toolVars, phases, collectVars, dlVars>>

\* lines 49-50: var keys []string and the call of collectRecursive
MainCollect ==
    /\ mainPc = "collect"
    /\ start' = MainPrefix
    /\ keys' = <<>>
    /\ stack' = << NewFrame(MainPrefix) >>
    /\ phases' = Append(phases, "enumerate")
    /\ mainPc' = "collecting"
    /\ UNCHANGED <<toolVars, ns, failedAt, dlVars>>

\* lines 52-66: collectRecursive has returned; the calls of downloadFiles,
\* createZip and uploadFile are commented out, main logs and returns
MainFinish ==
    /\ mainPc = "collecting"
    /\ stack = <<>>
    /\ mainPc' = "done"
    /\ UNCHANGED <<toolVars, phases, collectVars, dlVars>>

NextMain ==
    \/ MainMkdirAll
    \/ MainLoadConfig
    \/ MainCollect
    \/ MainFinish
    \/ NextCollect

\* the process starts: any bucket, nothing local yet
InitMain ==
    /\ ns \in Buckets
    /\ start = <<>>
    /\ stack = <<>>
    /\ keys = <<>>
    /\ failedAt = {}
    /\ mainPc = "mkdir"
    /\ phases = <<>>
    /\ dkeys = <<>>
    /\ dlPc = "off"
    /\ launched = 0
    /\ wg = 0
    /\ sem = 0
    /\ tpc = <<>>
    /\ files = [p \in LocalPaths |-> Absent]
    /\ dirs = {}
    /\ outcome = <<>>
    /\ hist = <<>>
    /\ ZipIdle
    /\ SweepIdle

SpecMain == InitMain /\ [][NextMain]_vars

\* main under a scheduler that lets the one thread of the process run
SpecMainFair == SpecMain /\ WF_vars(NextMain)

Spec == SpecMain

----------------------------------------------------------------------------
(* The claims *)

\* the goroutines that have acquired a slot and not yet released it
SlotHolders == { i \in Tasks : hist[i].sent > hist[i].received }

Failures == {"mkdirErr", "createErr", "downloadErr"}

\* C1: in every reachable state of downloadFiles, the number of transfer
\* tasks that have acquired a slot and not yet released it is at most the
\* ceiling.
C1_AtMostCeilingHoldSlots == Cardinality(SlotHolders) <= SemCap

\* the pool is exhausted and a further task is blocked on it
C1_Witness ==
    /\ Cardinality(SlotHolders) = SemCap
    /\ \E i \in Tasks : tpc[i] = "acquire"

\* C2: downloadFiles has returned only when every task of the list has been
\* started and has ended.
C2_ReturnsAfterEveryTaskEnded ==
    dlPc = "returned" => \A i \in Tasks : tpc[i] = "end"

\* a list longer than the pool has been transferred, with a failure in it
C2_Witness ==
    /\ dlPc = "returned"
    /\ Len(dkeys) > SemCap
    /\ \E i \in Tasks : outcome[i] \in Failures

\* C3: every entry of the key list gets exactly one task, and no step of a
\* task (directory creation, file creation, download) is ever done a second
\* time, failed or not; a part is fetched and written again only inside the
\* task's one call of Download.
C3_EveryEntryAttemptedOnce ==
    \A i \in Tasks :
        /\ hist[i].started <= 1
        /\ hist[i].mkdirs <= 1
        /\ hist[i].creates <= 1
        /\ hist[i].downloads <= 1
        /\ dlPc = "returned" => hist[i].started = 1 /\ hist[i].mkdirs = 1
        /\ outcome[i] \in Failures =>
              tpc[i] \in {"close", "release", "wgdone", "end"}
        /\ (hist[i].written # {} \/ hist[i].retries > 0) =>
              tpc[i] = "download" /\ hist[i].downloads = 0

\* the call has returned with a failed download and a failed file creation
C3_Witness ==
    /\ dlPc = "returned"
    /\ \E i, j \in Tasks :
          /\ outcome[i] = "downloadErr" /\ hist[i].downloads = 1
          /\ outcome[j] = "createErr" /\ hist[j].creates = 1

\* the outermost call of collectRecursive has returned
CollectReturned == stack = <<>> /\ mainPc \in {"off", "done"}

\* the leaf keys under prefix P that end in ".json.gz"
Expected(b, P) == { k \in b : HasPrefix(k, P) /\ HasSuffix(k, GzSuffix) }

\* C4: when no listing call failed, the collection collectRecursive produced
\* for the starting prefix holds exactly the keys of the bucket that lie under
\* the prefix and end in ".json.gz", however the listings were cut in pages.
C4_ExactlyTheMatchingLeaves ==
    (CollectReturned /\ failedAt = {}) => Range(keys) = Expected(ns, start)

\* the spec's scenario: a/x.json.gz, a/b/y.json.gz and a/z.txt under a/
C4_Witness ==
    /\ CollectReturned
    /\ failedAt = {}
    /\ ns = {KeyAX, KeyABY, KeyAZ}
    /\ start = << "a", "/" >>
    /\ Range(keys) = {KeyAX, KeyABY}

\* the walk is over: every key that should have been collected and was not
\* lies beneath a prefix whose listing failed, and nothing else was collected
C5_OnlyFailedSubtreesMissing ==
    CollectReturned =>
        /\ Range(keys) \subseteq Expected(ns, start)
        /\ \A k \in Expected(ns, start) \ Range(keys) :
              \E P \in failedAt : HasPrefix(k, P)

\* a failed listing call ends only the call that made it: the accumulator and
\* the callers' frames (their remaining sub-prefixes, contents and pages) stay
C5_ErrorStep ==
    failedAt' # failedAt =>
        /\ keys' = keys
        /\ stack' = SubSeq(stack, 1, Len(stack) - 1)

\* no step removes or rewrites a key of the accumulator
C5_AccumulatorGrows ==
    Len(keys) <= Len(keys') /\ SubSeq(keys', 1, Len(keys)) = keys

\* C5: a failed listing of prefix P aborts only P's subtree: the keys already
\* collected stay, the caller goes on, and the keys missing at the end are
\* only keys beneath a failed prefix.
C5_FailureAbortsOnlyItsSubtree ==
    /\ []C5_OnlyFailedSubtreesMissing
    /\ [][C5_ErrorStep /\ C5_AccumulatorGrows]_vars

\* a sub-prefix failed, its key is missing, and a key of the caller's level
\* was collected after the failure
C5_Witness ==
    /\ CollectReturned
    /\ start = << "a", "/" >>
    /\ failedAt = { << "a", "/", "b", "/" >> }
    /\ KeyABY \in ns
    /\ keys = << KeyAX >>

\* C6: after downloadFiles returns, a local file exists only at the paths of
\* keys whose transfer succeeded; the file of a failed key is absent.
C6_FailedKeyLeavesNoFile ==
    dlPc = "returned" =>
        \A i \in Tasks :
            outcome[i] # "ok" =>
                \/ files[FilePath(dkeys[i])] = Absent
                \/ \E j \in Tasks : /\ outcome[j] = "ok"
                                    /\ FilePath(dkeys[j]) = FilePath(dkeys[i])

\* C7: a failure of one task stays with its key. No task that has ended,
\* failed or not, keeps a slot from the others: a task waiting on a full pool
\* waits only for tasks that still run and hold a slot, and the receive of a
\* task that releases never blocks. downloadFiles returns as usual, with every
\* task's outcome logged and the file of every successful task there, and
\* completely written when no other task of the list has the same path.
C7_FailureScopedToItsKey ==
    /\ \A j \in Tasks : tpc[j] = "release" => sem > 0
    /\ (sem >= SemCap /\ \E j \in Tasks : tpc[j] = "acquire")
          => Cardinality({ i \in Tasks : HoldsSlot(i) }) = SemCap
    /\ dlPc = "returned" =>
          \A j \in Tasks :
              /\ outcome[j] \in Failures \cup {"ok"}
              /\ outcome[j] = "ok" => files[PathOf[dkeys[j]]].st # "absent"
              /\ (/\ outcome[j] = "ok"
                  /\ \A i \in Tasks \ {j} : PathOf[dkeys[i]] # PathOf[dkeys[j]])
                    => files[PathOf[dkeys[j]]] = Complete(dkeys[j])

\* two tasks failed, at different steps, and a third one, of a list longer
\* than the pool, succeeded
C7_Witness ==
    /\ dlPc = "returned"
    /\ Len(dkeys) > SemCap
    /\ \E i, j, k \in Tasks :
          /\ outcome[i] = "mkdirErr"
          /\ outcome[j] = "downloadErr"
          /\ outcome[k] = "ok"
          /\ files[PathOf[dkeys[k]]] = Complete(dkeys[k])

RECURSIVE SlotsOut(_)
\* the slots tasks 1..n hold by their sends and receives
SlotsOut(n) ==
    IF n = 0 THEN 0 ELSE hist[n].sent - hist[n].received + SlotsOut(n - 1)

\* C8: a task sends to sem at most once and receives from it only after its
\* send and at most once; a task that has ended, however it ended, has done
\* both; sem holds exactly the slots of the tasks between their send and their
\* receive, and none when downloadFiles has returned.
C8_SlotReleasedExactlyOnce ==
    /\ \A i \in Tasks :
          /\ hist[i].sent <= 1
          /\ hist[i].received <= hist[i].sent
          /\ tpc[i] \in {"wgdone", "end"} =>
                hist[i].sent = 1 /\ hist[i].received = 1
          /\ HoldsSlot(i) <=> hist[i].sent > hist[i].received
    /\ sem = SlotsOut(Len(dkeys))
    /\ dlPc = "returned" => sem = 0

\* the call has returned after tasks ended in three different ways
C8_Witness ==
    /\ dlPc = "returned"
    /\ sem = 0
    /\ Cardinality(Range(outcome)) = 3
    /\ "ok" \in Range(outcome)

\* C9: no two tasks of one call have the same local file open for writing.
C9_NoTwoTasksWriteOneFile ==
    \A i, j \in Tasks :
        (i # j /\ HasOpen(i) /\ HasOpen(j))
            => FilePath(dkeys[i]) # FilePath(dkeys[j])

\* C10: a run of main that reaches its end has run the three phases in order:
\* the enumeration, the transfer of its key list, the decompression sweep.
C10_ThreePhasesInOrder ==
    mainPc = "done" => phases = << "enumerate", "transfer", "sweep" >>

\* the process ended early only in set-up, before any phase and any listing
C11_FatalOnlyInSetup ==
    mainPc = "fatal" => phases = <<>> /\ failedAt = {} /\ stack = <<>>

\* C11: no per-item error ends the process. log.Fatalf is reached only from
\* the two set-up steps (the local root, the client configuration); a failed
\* listing call leaves main running, and once set-up is done the run reaches
\* its normal end whatever listing calls fail.
C11_OnlySetupFailuresAreFatal ==
    /\ []C11_FatalOnlyInSetup
    /\ [][mainPc' = "fatal" => mainPc \in {"mkdir", "config"}]_vars
    /\ [][failedAt' # failedAt => mainPc' = "collecting"]_vars
    /\ (mainPc = "collect" ~> mainPc = "done")

\* a run reached its normal end although a listing call failed in it
C11_Witness ==
    /\ mainPc = "done"
    /\ failedAt # {}
    /\ keys = << KeyM >>
    /\ KeyMSN \in ns

\* downloadFiles has not returned and no goroutine of it can take a step
C14_Stuck == dlPc # "returned" /\ ~ENABLED NextDownload

\* downloadFiles has returned and every task has acquired a slot, released
\* it and ended
C14_AllThrough ==
    /\ dlPc = "returned"
    /\ \A i \in Tasks :
          hist[i].sent = 1 /\ hist[i].received = 1 /\ tpc[i] = "end"

\* C14: downloadFiles always eventually returns, for every list size (the
\* empty list and lists longer than the pool included): no state is a
\* deadlock, and the wait barrier is eventually passed with every task having
\* acquired a slot, finished and released it.
C14_AlwaysEventuallyReturns ==
    /\ []~C14_Stuck
    /\ <>C14_AllThrough

\* a list longer than the pool has been transferred without any failure
C14_Witness ==
    /\ dlPc = "returned"
    /\ Len(dkeys) > SemCap
    /\ \A i \in Tasks : outcome[i] = "ok"

\* the steps of a task in the order of the code, none after a failed one: a
\* task whose MkdirAll or Create failed is at its release or past it and has
\* made no later call
C15_StepsInOrder ==
    \A i \in Tasks :
        LET h == hist[i]
            at == tpc[i]
            out == outcome[i]
        IN  /\ h.mkdirs <= h.sent
            /\ h.creates <= h.mkdirs
            /\ h.downloads <= h.creates
            /\ h.received = 1 => at \in {"wgdone", "end"}
            /\ at = "mkdir" => h.sent = 1 /\ h.mkdirs = 0
            /\ at = "create" => h.mkdirs = 1 /\ h.creates = 0
            /\ at = "download" => h.creates = 1 /\ h.downloads = 0
            /\ at \in {"create", "download"} => out \notin Failures
            /\ out = "mkdirErr" =>
                  /\ at \in {"release", "wgdone", "end"}
                  /\ h.creates = 0 /\ h.downloads = 0
            /\ out = "createErr" =>
                  /\ at \in {"release", "wgdone", "end"}
                  /\ h.downloads = 0
                  /\ h.written = {} /\ h.retries = 0
            /\ h.creates = 0 =>
                  /\ h.written = {}
                  /\ \A p \in DOMAIN files[PathOf[dkeys[i]]].data :
                        files[PathOf[dkeys[i]]].data[p] # dkeys[i]

\* what a task has called and written
CallsOf(h) == << h.mkdirs, h.creates, h.downloads, h.written, h.retries >>

\* a task calls MkdirAll, Create or Download, and writes, only while it holds
\* a slot, and does none of it once its Download has returned or a call of it
\* failed; a directory is made only by a slot holder inside its MkdirAll, a
\* file changed only by one inside its Create or Download
C15_StepHoldsSlot ==
    /\ \A i \in Tasks :
          /\ CallsOf(hist'[i]) # CallsOf(hist[i]) =>
                /\ hist[i].sent > hist[i].received
                /\ hist'[i].sent > hist'[i].received
                /\ outcome[i] \notin Failures
                /\ tpc[i] \in {"mkdir", "create", "download"}
          /\ (outcome'[i] # outcome[i] /\ outcome'[i] \in {"mkdirErr", "createErr"})
                => tpc'[i] = "release"
    /\ dirs' # dirs =>
          \E i \in Tasks : /\ tpc[i] = "mkdir"
                           /\ hist[i].sent > hist[i].received
                           /\ (dirs' \ dirs) \subseteq DirsOf[dkeys[i]]
    /\ files' # files =>
          \E i \in Tasks : /\ tpc[i] \in {"create", "download"}
                           /\ hist[i].sent > hist[i].received
                           /\ \A f \in DOMAIN files :
                                 files'[f] # files[f] => f = PathOf[dkeys[i]]

\* C15: within a task the steps come in the order acquire, create the
\* directories, create the file, download, release; none of the three calls
\* is made by a task that holds no slot, and none after an earlier step of the
\* task failed.
C15_FixedStepOrderUnderSlot ==
    /\ []C15_StepsInOrder
    /\ [][C15_StepHoldsSlot]_vars

\* the call returned after a task stopped at MkdirAll, one at Create, and one
\* went through
C15_Witness ==
    /\ dlPc = "returned"
    /\ \E i, j, k \in Tasks :
          /\ outcome[i] = "mkdirErr" /\ hist[i].creates = 0
          /\ outcome[j] = "createErr" /\ hist[j].downloads = 0
          /\ outcome[k] = "ok" /\ hist[k].downloads = 1

\* every call on the stack is on a prefix strictly longer than, and beneath,
\* the prefix of the call that made it
C16_StrictlyDeeper ==
    \A i \in 1..(Len(stack) - 1) :
        /\ Len(stack[i + 1].prefix) > Len(stack[i].prefix)
        /\ HasPrefix(stack[i + 1].prefix, stack[i].prefix)

\* a call returns only from its loop condition: after a failed page call, or
\* when the store reported no further page and the last page is worked off
C16_ReturnStep ==
    Len(stack') < Len(stack) =>
        /\ Len(stack') = Len(stack) - 1
        /\ Top.cps = <<>> /\ Top.objs = <<>>
        /\ failedAt' # failedAt \/ (~Top.first /\ Top.rest = <<>>)

\* C16: collectRecursive terminates on every (finite) bucket: each recursive
\* call is on a strictly deeper prefix, the pagination of a prefix ends when
\* the store reports no further page or a page call fails, and the outermost
\* call returns, with the whole walk behind it.
C16_WalkTerminates ==
    /\ []C16_StrictlyDeeper
    /\ [][C16_ReturnStep]_vars
    /\ <>[](stack = <<>>)

\* a walk from the bucket's root down to the deepest key has returned
C16_Witness ==
    /\ CollectReturned
    /\ start = <<>>
    /\ failedAt = {}
    /\ KeyMSN \in Range(keys)
    /\ Len(keys) >= 2

\* the keys under the starting prefix that a failed listing kept from the result
Unlisted == Expected(ns, start) \ Range(keys)

\* C17: collectRecursive gives no error signal: what it returns after listing
\* calls failed is what a run without any failure returns on the bucket
\* without the keys the failed calls did not list.
C17_FailureLooksLikeEmptySubtree ==
    CollectReturned => keys \in Outputs(ns \ Unlisted, start)

\* the listing of ab/ failed, and the result is that of a bucket without ab/
C17_Witness ==
    /\ CollectReturned
    /\ start = << "a" >>
    /\ failedAt = { << "a", "b", "/" >> }
    /\ KeyAbW \in ns
    /\ keys = << KeyAX >>

\* no key occurs twice in the accumulator
C18_NoDuplicate ==
    \A i, j \in 1..Len(keys) : i # j => keys[i] # keys[j]

\* a step appends at most one key and leaves the keys before it as they are
C18_AppendOnly ==
    /\ Len(keys') \in {Len(keys), Len(keys) + 1}
    /\ SubSeq(keys', 1, Len(keys)) = keys

\* C18: the collection holds no key twice (the store reports each key in one
\* page of one listing), and collectRecursive only appends to it.
C18_NoDuplicatesAppendOnly ==
    /\ []C18_NoDuplicate
    /\ [][C18_AppendOnly]_vars

\* three keys were collected from the bucket's root
C18_Witness ==
    /\ CollectReturned
    /\ start = <<>>
    /\ Len(keys) = 3

\* the names of the nodes among the first k of the walk that are not directories
ZipNonDirs(k) ==
    LET T == SelectSeq(SubSeq(tree, 1, k), LAMBDA u : u.kind # "dir")
    IN  [i \in 1..Len(T) |-> T[i].name]

\* the first node of the walk whose visit fails, 0 when none does
ZipFirstFail ==
    IF \E i \in 1..Len(tree) : tree[i].fail # "none"
    THEN CHOOSE i \in 1..Len(tree) :
             /\ tree[i].fail # "none"
             /\ \A j \in 1..(i - 1) : tree[j].fail = "none"
    ELSE 0

\* the archive never has an entry for a directory, nor two for one file
C19_EntriesAreFiles ==
    /\ \A i \in 1..Len(entries) :
          \E j \in 1..zidx : tree[j].kind # "dir" /\ tree[j].name = entries[i]
    /\ \A i, j \in 1..Len(entries) : i # j => entries[i] # entries[j]

\* what createZip has done when it returns, the archive file created
C19_Returned ==
    (zpc = "returned" /\ zerr.step # "archive") =>
        IF ZipFirstFail = 0
        THEN /\ zerr = NoErr
             /\ zidx = Len(tree)
             /\ entries = ZipNonDirs(Len(tree))
        ELSE /\ zerr = [step |-> tree[ZipFirstFail].fail, at |-> tree[ZipFirstFail].name]
             /\ zidx = ZipFirstFail
             /\ entries = ZipNonDirs(ZipFirstFail - 1)
                          \o (IF tree[ZipFirstFail].fail \in {"open", "copy"}
                              THEN << tree[ZipFirstFail].name >> ELSE <<>>)

\* C19: createZip gives every file under sourceDir that is not a directory one
\* entry named by its path relative to sourceDir and gives directories none;
\* at the first error of the walk it stops, visits nothing more and returns
\* that error.
C19_OneEntryPerFileStopAtFirstError ==
    C19_EntriesAreFiles /\ C19_Returned

\* the copy of a/x failed after sourceDir and a were passed; a.b was not
\* visited although its visit would have failed as well
C19_Witness ==
    /\ zpc = "returned"
    /\ zerr = [step |-> "copy", at |-> << "a", "/", "x" >>]
    /\ entries = << << "a", "/", "x" >> >>
    /\ Len(tree) = 4
    /\ zidx = 3
    /\ tree[4].fail = "open"

\* the outcomes that stand for a failed open, decompression or copy
SwFailures == {"openErr", "gzipErr", "createErr", "copyErr"}

\* an original goes only in the removal step of its own visit, its sibling
\* completely written
C12_RemovalStep ==
    \A n \in SwGzNames :
        (sfiles[n] = "gz" /\ sfiles'[n] # "gz") =>
            /\ spc = "remove"
            /\ SwCur = n
            /\ sfiles[DestOf[n]] = "json"
            /\ sfiles'[DestOf[n]] = "json"

\* the step that logs a failure for a file leaves its original in place
C12_FailureStep ==
    (Len(slog') = Len(slog) + 1 /\ slog'[Len(slog')].outcome \in SwFailures) =>
        sfiles'[slog'[Len(slog')].name] = "gz"

\* an original a sweep visited is gone only when the last thing logged for it
\* is the success, and then its sibling holds the whole decompressed stream
C12_GoneOnlyWhenDone ==
    \A n \in SwGzNames :
        (sfiles[n] = "absent" /\ \E i \in 1..Len(slog) : slog[i].name = n) =>
            /\ sfiles[DestOf[n]] = "json"
            /\ LET last == CHOOSE i \in 1..Len(slog) :
                               /\ slog[i].name = n
                               /\ \A j \in (i + 1)..Len(slog) : slog[j].name # n
               IN  slog[last].outcome = "done"

\* C12: the sweep removes a compressed original only after the copy of its
\* whole decompressed stream to the sibling succeeded; after a failed open,
\* decompression or copy the original is still there.
C12_OriginalKeptUntilCopied ==
    /\ []C12_GoneOnlyWhenDone
    /\ [][C12_RemovalStep]_vars
    /\ [][C12_FailureStep]_vars

\* one sweep: a/b/y was decompressed and removed, the copy of a/x failed and
\* a/x.json.gz is still there
C12_Witness ==
    /\ spc = "idle"
    /\ srun = 1
    /\ sfiles[KeyABY] = "absent" /\ sfiles[DestOf[KeyABY]] = "json"
    /\ sfiles[KeyAX] = "gz" /\ sfiles[DestOf[KeyAX]] = "partial"
    /\ \E i \in 1..Len(slog) : slog[i] = [run |-> 1, name |-> KeyAX, outcome |-> "copyErr"]

\* every sweep so far succeeded for every compressed file it met: each was
\* decompressed and its original removed
SwAllSucceeded == \A i \in 1..Len(slog) : slog[i].outcome = "done"

\* C13: a sweep of a tree on which the sweeps before it succeeded for every
\* compressed file (decompressed, original removed) is a no-op: it opens no
\* file, changes no file and logs nothing.
C13_RerunIsNoOp ==
    [][(srun' >= 2 /\ SwAllSucceeded) =>
          /\ sfiles' = sfiles
          /\ slog' = slog
          /\ spc' \in {"visit", "idle"}]_vars

\* the second sweep is through on a tree whose two compressed files the
\* first one decompressed
C13_Witness ==
    /\ srun = 2
    /\ spc = "idle"
    /\ Len(slog) = 2
    /\ SwAllSucceeded
    /\ \A n \in SwGzNames : sfiles[n] = "absent" /\ sfiles[DestOf[n]] = "json"
    /\ sfiles[KeyAZ] = "other"

====
